---- MODULE Spec2Model ----
(***************************************************************************)
(* A model of bl.py: page_two_up composes two pages side by side on a      *)
(* double-width page, create_booklet imposes the pages of an input PDF in  *)
(* booklet order, appends an optional centerfold with alternating          *)
(* rotation, and saves the result.                                         *)
(*                                                                         *)
(* A page is a record                                                      *)
(*   origin   : "input", "centerfold" or "blank" (PageObject.create_blank_page) *)
(*   index    : its 0-based position in the document it was read from      *)
(*   mediabox : <<llx, lly, urx, ury>>                                     *)
(*   rotation : its /Rotate entry, in degrees                              *)
(*   merged   : the pages merged onto it, each with its translation        *)
(* A document is a sequence of pages; Python's pages[k] is doc[k + 1].     *)
(***************************************************************************)
EXTENDS Integers, Sequences, FiniteSets

VARIABLES
    pc,               \* the statement create_booklet is at (or raised at)
    err,              \* the exception that ended the run, "none" while running
    centerfold_path,  \* the argument: "None", "" or a path
    input_doc,        \* the pages read from input_path (<<>> before the read)
    centerfold_doc,   \* the pages read from centerfold_path, as they were read
    input_file,       \* handle state: "unopened", "open", "closed"
    centerfold_file,  \* handle state
    output_file,      \* handle state
    output_opens,     \* how often output_path was opened for writing
    output,           \* the pages stored at output_path
    pdf_reader,       \* pdf_reader.pages, of the reader currently bound
    total_pages,
    range_next,       \* the next value range(0, total_pages//2, 2) yields
    i,
    angle,
    cf_next,          \* the position of the iteration over the centerfold pages
    pdf_writer,       \* the pages added to the writer
    last_call         \* the latest call of page_two_up: arguments and outcome

vars == <<pc, err, centerfold_path, input_doc, centerfold_doc, input_file,
          centerfold_file, output_file, output_opens, output, pdf_reader,
          total_pages, range_next, i, angle, cf_next, pdf_writer, last_call>>

-----------------------------------------------------------------------------
(* Bounds of the model and the inputs drawn within them.                   *)

MaxPages == 6

MaxCenterfold == 2

\* Media boxes of input pages: two sizes, and one box of the first size at
\* another origin.
Boxes == { <<0, 0, 2, 3>>, <<0, 0, 2, 4>>, <<1, 0, 3, 3>> }

\* Media boxes of centerfold pages: double width, and single width.
CenterfoldBoxes == { <<0, 0, 4, 3>>, <<0, 0, 2, 3>> }

CenterfoldRotations == { 0, 90 }

CenterfoldArgs == { "None", "", "centerfold.pdf" }

SeqsUpTo(S, n) == UNION { [1..k -> S] : k \in 0..n }

\* The documents an input file can hold: page k carries its index.
InputDocs ==
    { [k \in 1..Len(bs) |->
          [origin |-> "input", index |-> k - 1, mediabox |-> bs[k],
           rotation |-> 0, merged |-> <<>>]] :
      bs \in SeqsUpTo(Boxes, MaxPages) }

CenterfoldDocs ==
    { [k \in 1..Len(ps) |->
          [origin |-> "centerfold", index |-> k - 1, mediabox |-> ps[k][1],
           rotation |-> ps[k][2], merged |-> <<>>]] :
      ps \in SeqsUpTo(CenterfoldBoxes \X CenterfoldRotations, MaxCenterfold) }

-----------------------------------------------------------------------------
(* The page model of the PDF library, as far as bl.py uses it.             *)

Width(box) == box[3] - box[1]

Height(box) == box[4] - box[2]

PageAt(pages, k) == pages[k + 1]

create_blank_page(width, height) ==
    [origin |-> "blank", index |-> 0, mediabox |-> <<0, 0, width, height>>,
     rotation |-> 0, merged |-> <<>>]

merge_translated_page(onto, page, tx, ty) ==
    [onto EXCEPT !.merged =
        Append(@, [origin |-> page.origin, index |-> page.index,
                   tx |-> tx, ty |-> ty])]

merge_page(onto, page) == merge_translated_page(onto, page, 0, 0)

rotate(page, a) == [page EXCEPT !.rotation = @ + a]

-----------------------------------------------------------------------------
(* page_two_up                                                             *)

\* A variant asserting equal width and height only.
SameMediaboxSizeOnly(left, right) ==
    /\ Width(left.mediabox) = Width(right.mediabox)
    /\ Height(left.mediabox) = Height(right.mediabox)

\* assert left.mediabox == right.mediabox
SameMediabox(left, right) == left.mediabox = right.mediabox

\* A variant creating the blank page at single width.
page_two_up_single_width(left, right) ==
    LET width  == Width(left.mediabox)
        height == Height(left.mediabox)
    IN  IF ~SameMediabox(left, right)
        THEN [raised |-> TRUE, value |-> <<>>]
        ELSE [raised |-> FALSE,
              value |-> << merge_translated_page(
                               merge_page(create_blank_page(width, height), left),
                               right, width, 0) >>]

\* The outcome of a call: raised, or the one page returned.
page_two_up(left, right) ==
    LET width  == Width(left.mediabox)
        height == Height(left.mediabox)
    IN  IF ~SameMediabox(left, right)
        THEN [raised |-> TRUE, value |-> <<>>]
        ELSE [raised |-> FALSE,
              value |-> << merge_translated_page(
                               merge_page(create_blank_page(width * 2, height), left),
                               right, width, 0) >>]

NoCall == [made |-> FALSE, left |-> create_blank_page(0, 0),
           right |-> create_blank_page(0, 0),
           result |-> [raised |-> FALSE, value |-> <<>>]]

-----------------------------------------------------------------------------
(* create_booklet                                                          *)

\* A variant without the parity assertion.
EvenPagesUnchecked(n) == TRUE

\* assert total_pages % 2 == 0
EvenPages(n) == n % 2 = 0

\* A variant with the first sheet's pages exchanged.
FirstPairSwapped(total, k) == [left |-> k, right |-> total - k - 1]

\* The page indices of the first sheet of an iteration.
FirstPair(total, k) == [left |-> total - k - 1, right |-> k]

\* A variant with the second sheet's pages exchanged.
SecondPairSwapped(total, k) == [left |-> total - k - 1, right |-> k]

\* A variant with the mirrored index off by one.
SecondPairOffByOne(total, k) == [left |-> k, right |-> total - k]

\* The page indices of the second sheet of an iteration.
SecondPair(total, k) == [left |-> k, right |-> total - k - 1]

\* A variant keeping the angle.
NextAngleKept(a) == a

\* angle *= -1
NextAngle(a) == a * (-1)

\* if centerfold_path:
Truthy(path) == path \notin { "None", "" }

\* The exceptions open() raises on a path it cannot open: a missing file or
\* directory, a path that is a directory, a path through a regular file, a
\* file or directory the process may not read or write, a NUL in the path.
\* "OSError" stands for every other instance of OSError (an over-long name,
\* a symlink loop, ...), "ValueError" for every instance of ValueError.
OpenErrors ==
    { "FileNotFoundError", "IsADirectoryError", "NotADirectoryError",
      "PermissionError", "OSError", "ValueError" }

\* The exceptions PdfReader raises on a file it cannot read as a PDF.
\* "PdfReadError" stands for every instance of pypdf's PdfReadError (an
\* empty file, a truncated stream, ...), "OSError" for a failing read.
ReadErrors == { "PdfReadError", "OSError" }

\* The exceptions pdf_writer.write raises when the file cannot take the
\* data: a pipe whose reader has gone, and "OSError" for every other
\* instance of OSError (a full device, ...).
WriteErrors == { "BrokenPipeError", "OSError" }

\* The leading parts of a sequence, the whole of it included.
Prefixes(seq) == { SubSeq(seq, 1, n) : n \in 0..Len(seq) }

\* A variant that never closes the file.
ReleaseNever(handle) == handle

\* Leaving a with block closes the file it opened.
Release(handle) == IF handle = "open" THEN "closed" ELSE handle

\* An exception leaves every enclosing with block and ends the run.
Raise(e) ==
    /\ err' = e
    /\ input_file' = Release(input_file)
    /\ centerfold_file' = Release(centerfold_file)

Init ==
    /\ pc = "open_input"
    /\ err = "none"
    /\ centerfold_path \in CenterfoldArgs
    /\ input_doc = <<>>
    /\ centerfold_doc = <<>>
    /\ input_file = "unopened"
    /\ centerfold_file = "unopened"
    /\ output_file = "unopened"
    /\ output_opens = 0
    /\ output = <<>>
    /\ pdf_reader = <<>>
    /\ total_pages = 0
    /\ range_next = 0
    /\ i = 0
    /\ angle = 0
    /\ cf_next = 0
    /\ pdf_writer = <<>>
    /\ last_call = NoCall

\* with open(input_path, 'rb') as input_file:
OpenInput ==
    /\ pc = "open_input" /\ err = "none"
    /\ \E opened \in BOOLEAN, e \in OpenErrors :
         IF opened
         THEN /\ input_file' = "open"
              /\ pc' = "read_input"
              /\ UNCHANGED <<err, centerfold_file>>
         ELSE /\ Raise(e)
              /\ UNCHANGED pc
    /\ UNCHANGED <<centerfold_path, input_doc, centerfold_doc, output_file,
                   output_opens, output, pdf_reader, total_pages, range_next,
                   i, angle, cf_next, pdf_writer, last_call>>

\* pdf_reader = PdfReader(input_file); total_pages = ...; assert ...
ReadInput ==
    /\ pc = "read_input" /\ err = "none"
    /\ \E readable \in BOOLEAN, e \in ReadErrors, doc \in InputDocs :
         IF readable
         THEN /\ input_doc' = doc
              /\ pdf_reader' = doc
              /\ total_pages' = Len(doc)
              /\ IF EvenPages(Len(doc))
                 THEN /\ range_next' = 0
                      /\ pc' = "for"
                      /\ UNCHANGED <<err, input_file, centerfold_file>>
                 ELSE /\ Raise("AssertionError")
                      /\ UNCHANGED <<pc, range_next>>
         ELSE /\ Raise(e)
              /\ UNCHANGED <<pc, input_doc, pdf_reader, total_pages,
                             range_next>>
    /\ UNCHANGED <<centerfold_path, centerfold_doc, output_file, output_opens,
                   output, i, angle, cf_next, pdf_writer, last_call>>

\* for i in range(0, total_pages//2, 2): the next value, or the end of the
\* loop and of the with block around it.
ForNext ==
    /\ pc = "for" /\ err = "none"
    /\ IF range_next < total_pages \div 2
       THEN /\ i' = range_next
            /\ range_next' = range_next + 2
            /\ pc' = "first_sheet"
            /\ UNCHANGED input_file
       ELSE /\ input_file' = Release(input_file)
            /\ pc' = "centerfold"
            /\ UNCHANGED <<i, range_next>>
    /\ UNCHANGED <<err, centerfold_path, input_doc, centerfold_doc,
                   centerfold_file, output_file, output_opens, output,
                   pdf_reader, total_pages, angle, cf_next, pdf_writer,
                   last_call>>

\* page = page_two_up(pages[total_pages - i - 1], pages[i]); add_page; i += 1
FirstSheet ==
    /\ pc = "first_sheet" /\ err = "none"
    /\ LET pair   == FirstPair(total_pages, i)
           left   == PageAt(pdf_reader, pair.left)
           right  == PageAt(pdf_reader, pair.right)
           result == page_two_up(left, right)
       IN  /\ last_call' = [made |-> TRUE, left |-> left, right |-> right,
                            result |-> result]
           /\ IF result.raised
              THEN /\ Raise("AssertionError")
                   /\ UNCHANGED <<pc, i, pdf_writer>>
              ELSE /\ pdf_writer' = Append(pdf_writer, result.value[1])
                   /\ i' = i + 1
                   /\ pc' = "second_sheet"
                   /\ UNCHANGED <<err, input_file, centerfold_file>>
    /\ UNCHANGED <<centerfold_path, input_doc, centerfold_doc, output_file,
                   output_opens, output, pdf_reader, total_pages, range_next,
                   angle, cf_next>>

\* if i < total_pages // 2: page = page_two_up(pages[i], pages[total_pages - i - 1])
SecondSheet ==
    /\ pc = "second_sheet" /\ err = "none"
    /\ IF i < total_pages \div 2
       THEN LET pair   == SecondPair(total_pages, i)
                left   == PageAt(pdf_reader, pair.left)
                right  == PageAt(pdf_reader, pair.right)
                result == page_two_up(left, right)
            IN  /\ last_call' = [made |-> TRUE, left |-> left, right |-> right,
                                 result |-> result]
                /\ IF result.raised
                   THEN /\ Raise("AssertionError")
                        /\ UNCHANGED <<pc, pdf_writer>>
                   ELSE /\ pdf_writer' = Append(pdf_writer, result.value[1])
                        /\ pc' = "for"
                        /\ UNCHANGED <<err, input_file, centerfold_file>>
       ELSE /\ pc' = "for"
            /\ UNCHANGED <<err, input_file, centerfold_file, pdf_writer,
                           last_call>>
    /\ UNCHANGED <<centerfold_path, input_doc, centerfold_doc, output_file,
                   output_opens, output, pdf_reader, total_pages, range_next,
                   i, angle, cf_next>>

\* if centerfold_path: with open(centerfold_path, 'rb') as centerfold_file:
OpenCenterfold ==
    /\ pc = "centerfold" /\ err = "none"
    /\ IF Truthy(centerfold_path)
       THEN \E opened \in BOOLEAN, e \in OpenErrors :
              IF opened
              THEN /\ centerfold_file' = "open"
                   /\ pc' = "read_centerfold"
                   /\ UNCHANGED <<err, input_file>>
              ELSE /\ Raise(e)
                   /\ UNCHANGED pc
       ELSE /\ pc' = "open_output"
            /\ UNCHANGED <<err, input_file, centerfold_file>>
    /\ UNCHANGED <<centerfold_path, input_doc, centerfold_doc, output_file,
                   output_opens, output, pdf_reader, total_pages, range_next,
                   i, angle, cf_next, pdf_writer, last_call>>

\* pdf_reader = PdfReader(centerfold_file); angle = 90
ReadCenterfold ==
    /\ pc = "read_centerfold" /\ err = "none"
    /\ \E readable \in BOOLEAN, e \in ReadErrors, doc \in CenterfoldDocs :
         IF readable
         THEN /\ centerfold_doc' = doc
              /\ pdf_reader' = doc
              /\ angle' = 90
              /\ cf_next' = 0
              /\ pc' = "centerfold_for"
              /\ UNCHANGED <<err, input_file, centerfold_file>>
         ELSE /\ Raise(e)
              /\ UNCHANGED <<pc, centerfold_doc, pdf_reader, angle, cf_next>>
    /\ UNCHANGED <<centerfold_path, input_doc, output_file, output_opens,
                   output, total_pages, range_next, i, pdf_writer, last_call>>

\* for page in pdf_reader.pages: page.rotate(angle); angle *= -1; add_page(page)
\* or the end of the loop and of the with block around it.
CenterfoldPage ==
    /\ pc = "centerfold_for" /\ err = "none"
    /\ IF cf_next < Len(pdf_reader)
       THEN LET page == rotate(PageAt(pdf_reader, cf_next), angle)
            IN  /\ pdf_reader' = [pdf_reader EXCEPT ![cf_next + 1] = page]
                /\ angle' = NextAngle(angle)
                /\ pdf_writer' = Append(pdf_writer, page)
                /\ cf_next' = cf_next + 1
                /\ UNCHANGED <<pc, centerfold_file>>
       ELSE /\ centerfold_file' = Release(centerfold_file)
            /\ pc' = "open_output"
            /\ UNCHANGED <<pdf_reader, angle, pdf_writer, cf_next>>
    /\ UNCHANGED <<err, centerfold_path, input_doc, centerfold_doc,
                   input_file, output_file, output_opens, output, total_pages,
                   range_next, i, last_call>>

\* with open(output_path, 'wb') as output_file: the file is created or
\* truncated, or open() raises and nothing is opened.
OpenOutput ==
    /\ pc = "open_output" /\ err = "none"
    /\ \E opened \in BOOLEAN, e \in OpenErrors :
         IF opened
         THEN /\ output_file' = "open"
              /\ output_opens' = output_opens + 1
              /\ output' = <<>>
              /\ pc' = "write_output"
              /\ UNCHANGED <<err, input_file, centerfold_file>>
         ELSE /\ Raise(e)
              /\ UNCHANGED <<pc, output_file, output_opens, output>>
    /\ UNCHANGED <<centerfold_path, input_doc, centerfold_doc, pdf_reader,
                   total_pages, range_next, i, angle, cf_next, pdf_writer,
                   last_call>>

\* pdf_writer.write(output_file), and the end of the with block; a write
\* that raises leaves some leading part of the data in the file.
WriteOutput ==
    /\ pc = "write_output" /\ err = "none"
    /\ output_file' = Release(output_file)
    /\ \E written \in BOOLEAN, e \in WriteErrors :
         IF written
         THEN /\ output' = pdf_writer
              /\ pc' = "done"
              /\ UNCHANGED <<err, input_file, centerfold_file>>
         ELSE /\ \E part \in Prefixes(pdf_writer) : output' = part
              /\ Raise(e)
              /\ UNCHANGED pc
    /\ UNCHANGED <<centerfold_path, input_doc, centerfold_doc, output_opens,
                   pdf_reader, total_pages, range_next, i, angle, cf_next,
                   pdf_writer, last_call>>

Next ==
    \/ OpenInput
    \/ ReadInput
    \/ ForNext
    \/ FirstSheet
    \/ SecondSheet
    \/ OpenCenterfold
    \/ ReadCenterfold
    \/ CenterfoldPage
    \/ OpenOutput
    \/ WriteOutput

Spec == Init /\ [][Next]_vars

-----------------------------------------------------------------------------
(* Vocabulary of the properties.                                           *)

Min(a, b) == IF a < b THEN a ELSE b

\* All pages of the document share one mediabox.
Uniform(doc) ==
    \A a, b \in 1..Len(doc) : doc[a].mediabox = doc[b].mediabox

\* The imposition loop has run to its end without raising.
LoopDone ==
    pc \in { "centerfold", "read_centerfold", "centerfold_for", "open_output",
             "write_output", "done" }

InLoop == pc \in { "for", "first_sheet", "second_sheet" }

\* The number of pages the centerfold contributes.
CenterfoldCount ==
    IF Truthy(centerfold_path) THEN Len(centerfold_doc) ELSE 0

\* The sheets the imposition loop has added to the writer so far.
MainSheets ==
    SubSeq(pdf_writer, 1, Min(Len(pdf_writer), total_pages \div 2))

\* sheet shows input page a at offset (0,0) and input page b at offset
\* (width of page a, 0), and nothing else.
IsTwoUp(sheet, a, b) ==
    /\ sheet.origin = "blank"
    /\ sheet.merged =
         << [origin |-> "input", index |-> a, tx |-> 0, ty |-> 0],
            [origin |-> "input", index |-> b,
             tx |-> Width(PageAt(input_doc, a).mediabox), ty |-> 0] >>

\* The mark of a half-page that shows no input page.
Blank == 0 - 1

\* The input page on the left half of a sheet (offset 0), Blank if none.
LeftHalf(sheet) ==
    LET ps == { q \in 1..Len(sheet.merged) : sheet.merged[q].tx = 0 }
    IN  IF ps = {} THEN Blank ELSE sheet.merged[CHOOSE q \in ps : TRUE].index

\* The input page on the right half of a sheet (offset > 0), Blank if none.
RightHalf(sheet) ==
    LET ps == { q \in 1..Len(sheet.merged) : sheet.merged[q].tx > 0 }
    IN  IF ps = {} THEN Blank ELSE sheet.merged[CHOOSE q \in ps : TRUE].index

\* The half-pages met when leafing through the folded booklet made of the
\* given output sheets: sheets 2j and 2j+1 are front and back of physical
\* sheet j, sheet 0 is outermost.
Leafing(sheets) ==
    LET h        == Len(sheets)
        physical == (h + 1) \div 2
        FrontL(j) == LeftHalf(sheets[2 * j + 1])
        FrontR(j) == RightHalf(sheets[2 * j + 1])
        BackL(j)  == IF 2 * j + 2 <= h THEN LeftHalf(sheets[2 * j + 2]) ELSE Blank
        BackR(j)  == IF 2 * j + 2 <= h THEN RightHalf(sheets[2 * j + 2]) ELSE Blank
        forward  == [t \in 1..(2 * physical) |->
                        IF t % 2 = 1 THEN FrontR((t - 1) \div 2)
                                     ELSE BackL((t - 2) \div 2)]
        backward == [t \in 1..(2 * physical) |->
                        IF t % 2 = 1 THEN BackR(physical - 1 - (t - 1) \div 2)
                                     ELSE FrontL(physical - 1 - (t - 2) \div 2)]
        NotBlank(x) == x /= Blank
    IN  SelectSeq(forward \o backward, NotBlank)

\* How many (sheet, position) places of the main body show input page p.
UseCount(p) ==
    Cardinality({ kq \in (1..Len(MainSheets)) \X (1..2) :
                    /\ kq[2] <= Len(MainSheets[kq[1]].merged)
                    /\ MainSheets[kq[1]].merged[kq[2]].index = p })

-----------------------------------------------------------------------------
(* C1 as stated: every successful run on an even, uniform input yields     *)
(* exactly N/2 pages, each of width 2*W and height H, with or without a    *)
(* centerfold. Stated for inputs of at least two pages, where W and H are  *)
(* those of the first page.                                                *)
C1_HalfThePagesAlways ==
    (pc = "done" /\ Uniform(input_doc) /\ Len(input_doc) >= 2) =>
        /\ Len(output) = Len(input_doc) \div 2
        /\ \A k \in 1..Len(output) :
             /\ Width(output[k].mediabox) = 2 * Width(input_doc[1].mediabox)
             /\ Height(output[k].mediabox) = Height(input_doc[1].mediabox)

(* C1 amended: a successful run on an even, uniform input of N pages yields *)
(* N/2 + m pages, m the number of centerfold pages (0 without centerfold); *)
(* the first N/2 are each of width 2*W and height H.                       *)
C1_HalfThePagesPlusCenterfold ==
    (pc = "done" /\ Uniform(input_doc)) =>
        /\ Len(input_doc) % 2 = 0
        /\ Len(output) = Len(input_doc) \div 2 + CenterfoldCount
        /\ \A k \in 1..(Len(input_doc) \div 2) :
             /\ Width(output[k].mediabox) = 2 * Width(input_doc[1].mediabox)
             /\ Height(output[k].mediabox) = Height(input_doc[1].mediabox)

C1_Witness ==
    /\ pc = "done"
    /\ Len(input_doc) = 4
    /\ Uniform(input_doc)
    /\ Len(centerfold_doc) = 1
    /\ Len(output) = 3

(* C2: an input with an odd page count ends the run with an assertion      *)
(* error at the parity check: page_two_up was never called, the writer is  *)
(* empty and the output path was never opened or written, with or without  *)
(* a centerfold path.                                                      *)
C2_OddInputRejected ==
    (Len(input_doc) % 2 = 1) =>
        /\ err = "AssertionError"
        /\ pc = "read_input"
        /\ ~last_call.made
        /\ pdf_writer = <<>>
        /\ output_opens = 0
        /\ output_file = "unopened"
        /\ output = <<>>

C2_Witness ==
    /\ Len(input_doc) = 3
    /\ Truthy(centerfold_path)
    /\ err = "AssertionError"

(* C3 as stated: a 4-page input without centerfold yields two sheets,      *)
(* sheet 0 = two_up(left=P3, right=P0), sheet 1 = two_up(left=P2, right=P1). *)
C3_FourPagesAsStated ==
    (pc = "done" /\ ~Truthy(centerfold_path) /\ Len(input_doc) = 4) =>
        /\ Len(output) = 2
        /\ IsTwoUp(output[1], 3, 0)
        /\ IsTwoUp(output[2], 2, 1)

(* C3 amended: a 4-page input without centerfold yields two sheets,        *)
(* sheet 0 = two_up(left=P3, right=P0), sheet 1 = two_up(left=P1, right=P2). *)
C3_FourPages ==
    (pc = "done" /\ ~Truthy(centerfold_path) /\ Len(input_doc) = 4) =>
        /\ Len(output) = 2
        /\ IsTwoUp(output[1], 3, 0)
        /\ IsTwoUp(output[2], 1, 2)

C3_Witness ==
    /\ pc = "done"
    /\ ~Truthy(centerfold_path)
    /\ Len(input_doc) = 4
    /\ Len(output) = 2

(* C4: once the imposition loop is over, leafing through the main-body     *)
(* sheets printed duplex, nested and folded meets the input pages          *)
(* 0, 1, ..., N-1 in that order.                                           *)
C4_ReadingOrderRestored ==
    LoopDone =>
        Leafing(MainSheets) = [k \in 1..Len(input_doc) |-> k - 1]

C4_Witness ==
    /\ pc = "done"
    /\ Len(input_doc) = 6
    /\ Len(MainSheets) = 3

(* C5: with a centerfold of m pages, the output is the N/2 main-body sheets *)
(* followed by the m centerfold pages in their order, not composited, with *)
(* their mediabox unchanged and rotated by +90 degrees at even positions   *)
(* and by -90 degrees at odd positions.                                    *)
C5_CenterfoldAppended ==
    (pc = "done" /\ Truthy(centerfold_path)) =>
        LET h == Len(input_doc) \div 2
            m == Len(centerfold_doc)
        IN  /\ Len(output) = h + m
            /\ \A k \in 1..h : output[k].origin = "blank"
            /\ \A j \in 0..(m - 1) :
                 LET out == output[h + j + 1]
                     src == PageAt(centerfold_doc, j)
                 IN  /\ out.origin = "centerfold"
                     /\ out.index = j
                     /\ out.merged = <<>>
                     /\ out.mediabox = src.mediabox
                     /\ out.rotation =
                          src.rotation + (IF j % 2 = 0 THEN 90 ELSE -90)

C5_Witness ==
    /\ pc = "done"
    /\ Len(input_doc) = 2
    /\ Len(centerfold_doc) = 2
    /\ centerfold_doc[1].rotation = 90
    /\ Len(output) = 3

(* C6: an even-page input whose pages do not all share one mediabox never  *)
(* yields a booklet: the run fails with an assertion error.                *)
C6_VariableSizesRejected ==
    (pc = "done") => Uniform(input_doc)

(* C7: every call of page_two_up on pages of different mediabox raises and *)
(* returns no page; every call on pages of equal mediabox, of width W and  *)
(* height H, returns a new page of width 2*W and height H showing left at  *)
(* offset (0,0) and right at offset (W,0); the reader's pages stay as read. *)
C7_PageTwoUpContract ==
    /\ last_call.made =>
         LET left   == last_call.left
             right  == last_call.right
             result == last_call.result
             w      == Width(left.mediabox)
             h      == Height(left.mediabox)
         IN  /\ (left.mediabox /= right.mediabox) =>
                   /\ result.raised
                   /\ result.value = <<>>
                   /\ err = "AssertionError"
             /\ (left.mediabox = right.mediabox) =>
                   /\ ~result.raised
                   /\ Len(result.value) = 1
                   /\ result.value[1].origin = "blank"
                   /\ Width(result.value[1].mediabox) = 2 * w
                   /\ Height(result.value[1].mediabox) = h
                   /\ result.value[1].merged =
                        << [origin |-> left.origin, index |-> left.index,
                            tx |-> 0, ty |-> 0],
                           [origin |-> right.origin, index |-> right.index,
                            tx |-> w, ty |-> 0] >>
    /\ InLoop => pdf_reader = input_doc

C7_Witness ==
    /\ last_call.made
    /\ last_call.result.raised
    /\ Len(pdf_writer) = 1
    /\ Width(last_call.left.mediabox) = Width(last_call.right.mediabox)
    /\ Height(last_call.left.mediabox) = Height(last_call.right.mediabox)

(* C8: the output path is opened at most once, and only when every         *)
(* main-body sheet and every centerfold page is in the writer and the      *)
(* input and centerfold handles are released, nothing having been raised   *)
(* before; a run ended by an exception raised anywhere before the write    *)
(* itself (during assembly, or by opening the output path) has never       *)
(* opened or written the output path.                                      *)
C8_OutputOpenedLast ==
    /\ output_opens <= 1
    /\ (output_opens = 1) =>
         /\ pc \in { "write_output", "done" }
         /\ input_file = "closed"
         /\ centerfold_file /= "open"
         /\ Truthy(centerfold_path) => centerfold_file = "closed"
         /\ Len(pdf_writer) = Len(input_doc) \div 2 + CenterfoldCount
    /\ (output_file /= "unopened") => output_opens = 1
    /\ (err /= "none" /\ pc /= "write_output") =>
         /\ output_opens = 0
         /\ output_file = "unopened"
         /\ output = <<>>
    /\ (err /= "none") =>
         /\ input_file /= "open"
         /\ centerfold_file /= "open"
         /\ output_file /= "open"

C8_Witness ==
    /\ pc = "done"
    /\ output_opens = 1
    /\ Len(input_doc) = 4
    /\ Truthy(centerfold_path)
    /\ Len(centerfold_doc) = 2

(* C9: the k-th main-body sheet is two_up(left = N-1-k, right = k) for     *)
(* even k and two_up(left = k, right = N-1-k) for odd k; when the loop is  *)
(* over there are exactly N/2 of them, also for odd N/2 and for N = 0.     *)
C9_SheetPattern ==
    /\ \A k \in 0..(Len(MainSheets) - 1) :
         IF k % 2 = 0
         THEN IsTwoUp(MainSheets[k + 1], total_pages - 1 - k, k)
         ELSE IsTwoUp(MainSheets[k + 1], k, total_pages - 1 - k)
    /\ InLoop => Len(pdf_writer) <= total_pages \div 2
    /\ LoopDone => Len(MainSheets) = Len(input_doc) \div 2

C9_Witness ==
    /\ pc = "centerfold"
    /\ Len(input_doc) = 6
    /\ Uniform(input_doc)
    /\ Len(pdf_writer) = 3

(* C10: no input page is ever used in more than one place of the main      *)
(* body, and when the loop is over every input page is used in exactly one. *)
C10_EachPageOnce ==
    /\ \A p \in 0..(Len(input_doc) - 1) : UseCount(p) <= 1
    /\ LoopDone => \A p \in 0..(Len(input_doc) - 1) : UseCount(p) = 1

C10_Witness ==
    /\ pc = "open_output"
    /\ Len(input_doc) = 6
    /\ Len(MainSheets) = 3

====
